---- MODULE Spec2Model ----
(***************************************************************************)
(* safe_print: sanitising untrusted text before it reaches a terminal.     *)
(*                                                                         *)
(* Text is a sequence of Unicode code points.  The regular expression that *)
(* get_color_pattern composes is kept as a syntax tree, and re.match is a  *)
(* backtracking matcher over that tree: it lists the end positions of all  *)
(* the ways the pattern matches, in the order the backtracker tries them,  *)
(* and counts the character tests a complete exploration performs.         *)
(***************************************************************************)
EXTENDS Integers, Sequences, FiniteSets, Bags, TLC

(* ------------------------------------------------------------------ *)
(* Code points the source names                                        *)
(* ------------------------------------------------------------------ *)
BEL == 7
TAB == 9
LF == 10
ESC == 27
SPACE == 32
TILDE == 126
LBRACKET == 91
UNDERSCORE == 95
SEMI == 59
LETTER_M == 109
ZERO == 48

Digit(d) == ZERO + d
DigitRange(a, b) == {Digit(d) : d \in a..b}

(* ------------------------------------------------------------------ *)
(* Regular expressions as syntax trees                                 *)
(* ------------------------------------------------------------------ *)
Cls(S) == [t |-> "cls", s |-> S]
Ch(c) == Cls({c})
Cat(rs) == [t |-> "cat", rs |-> rs]
Alt(rs) == [t |-> "alt", rs |-> rs]
Opt(r) == [t |-> "opt", r |-> r]
Star(r) == [t |-> "star", r |-> r]
Plus(r) == Cat(<<r, Star(r)>>)
NegLookahead(toks) == [t |-> "nla", toks |-> toks]

\* s has the literal tok at position p
StartsWith(s, p, tok) ==
    /\ p + Len(tok) - 1 <= Len(s)
    /\ \A k \in 1..Len(tok) : s[p + k - 1] = tok[k]

(* ------------------------------------------------------------------ *)
(* The backtracking matcher                                            *)
(*                                                                     *)
(* A result is [w, n]: w is the bag of end positions of the ways a     *)
(* pattern matches (w[q] ways end at q); n is the number of character  *)
(* tests made when every way is explored without memoisation, which is *)
(* what a match that finally fails costs the backtracker.              *)
(* ------------------------------------------------------------------ *)
Nothing == [n |-> 0, w |-> EmptyBag]

\* k times the ways of B
Scale(B, k) == [q \in DOMAIN B |-> k * B[q]]

\* the ways of B that end behind p
Behind(B, p) == [q \in {x \in DOMAIN B : x > p} |-> B[q]]

\* the starts of D up to its median
LowerHalf(D) ==
    LET mid == CHOOSE x \in D :
                   Cardinality({y \in D : y <= x}) = (Cardinality(D) + 1) \div 2
    IN  {y \in D : y <= mid}

RECURSIVE Run(_, _, _), Thread(_, _, _, _, _), RunCat(_, _, _, _, _),
          RunAlt(_, _, _, _, _), RunStar(_, _, _)

\* re continued from every start of D, a subset of the starts of the bag st;
\* strict keeps only the ways that consume something
Thread(re, s, st, D, strict) ==
    IF D = {} THEN Nothing
    ELSE IF Cardinality(D) = 1
    THEN LET q == CHOOSE x \in D : TRUE
             h == Run(re, s, q)
         IN  [n |-> st[q] * h.n,
              w |-> Scale(IF strict THEN Behind(h.w, q) ELSE h.w, st[q])]
    ELSE LET a == Thread(re, s, st, LowerHalf(D), strict)
             b == Thread(re, s, st, D \ LowerHalf(D), strict)
         IN  [n |-> a.n + b.n, w |-> a.w (+) b.w]

\* rs[lo..hi] in sequence, continuing every way of st
RunCat(rs, lo, hi, s, st) ==
    IF lo = hi THEN Thread(rs[lo], s, st, DOMAIN st, FALSE)
    ELSE LET a == RunCat(rs, lo, (lo + hi) \div 2, s, st)
             b == RunCat(rs, (lo + hi) \div 2 + 1, hi, s, a.w)
         IN  [n |-> a.n + b.n, w |-> b.w]

\* rs[lo..hi] as alternatives
RunAlt(rs, lo, hi, s, p) ==
    IF lo = hi THEN Run(rs[lo], s, p)
    ELSE LET a == RunAlt(rs, lo, (lo + hi) \div 2, s, p)
             b == RunAlt(rs, (lo + hi) \div 2 + 1, hi, s, p)
         IN  [n |-> a.n + b.n, w |-> a.w (+) b.w]

\* zero or more re, continuing every way of st
RunStar(re, s, st) ==
    IF DOMAIN st = {} THEN Nothing
    ELSE LET m == Thread(re, s, st, DOMAIN st, TRUE)
             r == RunStar(re, s, m.w)
         IN  [n |-> m.n + r.n, w |-> st (+) r.w]

Run(re, s, p) ==
    CASE re.t = "cls" ->
           [n |-> 1,
            w |-> IF p <= Len(s) /\ s[p] \in re.s THEN SetToBag({p + 1}) ELSE EmptyBag]
      [] re.t = "nla" ->
           [n |-> 1,
            w |-> IF \E k \in 1..Len(re.toks) : StartsWith(s, p, re.toks[k])
                  THEN EmptyBag ELSE SetToBag({p})]
      [] re.t = "cat" -> RunCat(re.rs, 1, Len(re.rs), s, SetToBag({p}))
      [] re.t = "alt" -> RunAlt(re.rs, 1, Len(re.rs), s, p)
      [] re.t = "opt" ->
           LET a == Run(re.r, s, p)
           IN  [n |-> a.n, w |-> a.w (+) SetToBag({p})]
      [] re.t = "star" -> RunStar(re.r, s, SetToBag({p}))

(* ------------------------------------------------------------------ *)
(* exclude_pattern and get_color_pattern                               *)
(* ------------------------------------------------------------------ *)
Semis == Star(Ch(SEMI))

\* a pattern returned without the lookahead in front of it
exclude_pattern_unguarded(original_pattern, negate_pattern) == original_pattern

\* (?!(?:tok1|tok2|...)) in front of original_pattern; re.escape makes
\* every token a literal
exclude_pattern(original_pattern, negate_pattern) ==
    Cat(<<NegLookahead(negate_pattern), original_pattern>>)

\* a code table whose 2[1-5] reads 2[1-6]
sgr_4bit_codes_with_26 ==
    Alt(<< Cls(DigitRange(0, 9)),
           Cat(<<Ch(Digit(2)), Cls(DigitRange(1, 6))>>),
           Cat(<<Ch(Digit(2)), Cls(DigitRange(7, 9))>>),
           Cat(<<Ch(Digit(3)), Cls(DigitRange(0, 7))>>),
           Cat(<<Ch(Digit(3)), Ch(Digit(9))>>),
           Cat(<<Ch(Digit(4)), Cls(DigitRange(0, 7))>>),
           Cat(<<Ch(Digit(4)), Ch(Digit(9))>>),
           Cat(<<Ch(Digit(9)), Cls(DigitRange(0, 7))>>),
           Cat(<<Ch(Digit(1)), Ch(Digit(0)), Cls(DigitRange(0, 7))>>) >>)

\* ([0-9]|2[1-5]|2[7-9]|3[0-7]|39|4[0-7]|49|9[0-7]|10[0-7])
sgr_4bit_codes ==
    Alt(<< Cls(DigitRange(0, 9)),
           Cat(<<Ch(Digit(2)), Cls(DigitRange(1, 5))>>),
           Cat(<<Ch(Digit(2)), Cls(DigitRange(7, 9))>>),
           Cat(<<Ch(Digit(3)), Cls(DigitRange(0, 7))>>),
           Cat(<<Ch(Digit(3)), Ch(Digit(9))>>),
           Cat(<<Ch(Digit(4)), Cls(DigitRange(0, 7))>>),
           Cat(<<Ch(Digit(4)), Ch(Digit(9))>>),
           Cat(<<Ch(Digit(9)), Cls(DigitRange(0, 7))>>),
           Cat(<<Ch(Digit(1)), Ch(Digit(0)), Cls(DigitRange(0, 7))>>) >>)

\* the 4-bit parameter, behind the lookahead when colours are excluded
sgr_4bit_param(exclude_colors) ==
    IF exclude_colors # <<>>
    THEN exclude_pattern(sgr_4bit_codes, exclude_colors)
    ELSE sgr_4bit_codes

\* ;*P(;P)*
sgr_4bit(exclude_colors) ==
    LET P == sgr_4bit_param(exclude_colors)
    IN  Cat(<<Semis, P, Star(Cat(<<Ch(SEMI), P>>))>>)

\* a colour value whose 25[0-5] reads 25[0-6]
eight_bit_to_256 ==
    Alt(<< Cat(<<Opt(Cls(DigitRange(0, 1))), Opt(Cls(DigitRange(0, 9))),
                 Cls(DigitRange(0, 9))>>),
           Cat(<<Ch(Digit(2)), Cls(DigitRange(0, 4)), Cls(DigitRange(0, 9))>>),
           Cat(<<Ch(Digit(2)), Ch(Digit(5)), Cls(DigitRange(0, 6))>>) >>)

\* ([0-1]?[0-9]?[0-9]|2[0-4][0-9]|25[0-5])
eight_bit ==
    Alt(<< Cat(<<Opt(Cls(DigitRange(0, 1))), Opt(Cls(DigitRange(0, 9))),
                 Cls(DigitRange(0, 9))>>),
           Cat(<<Ch(Digit(2)), Cls(DigitRange(0, 4)), Cls(DigitRange(0, 9))>>),
           Cat(<<Ch(Digit(2)), Ch(Digit(5)), Cls(DigitRange(0, 5))>>) >>)

\* [3-4]8;5;N
sgr_8bit ==
    Cat(<<Cls(DigitRange(3, 4)), Ch(Digit(8)), Ch(SEMI), Ch(Digit(5)),
          Ch(SEMI), eight_bit>>)

\* [3-4]8;2;R;G;B
sgr_24bit ==
    Cat(<<Cls(DigitRange(3, 4)), Ch(Digit(8)), Ch(SEMI), Ch(Digit(2)),
          Ch(SEMI), eight_bit, Ch(SEMI), eight_bit, Ch(SEMI), eight_bit>>)

sgr_extra(exclude_colors) ==
    LET both == Alt(<<sgr_8bit, sgr_24bit>>)
    IN  IF exclude_colors # <<>>
        THEN exclude_pattern(both, exclude_colors)
        ELSE both

\* (;*|4bit)?m
sgr_re_4bit(exclude_colors) ==
    Cat(<<Opt(Alt(<<Semis, sgr_4bit(exclude_colors)>>)), Ch(LETTER_M)>>)

\* (4bit;+)*;*extra;*(;+4bit)*m
sgr_re_extra(exclude_colors) ==
    Cat(<< Star(Cat(<<sgr_4bit(exclude_colors), Plus(Ch(SEMI))>>)),
           Semis,
           sgr_extra(exclude_colors),
           Semis,
           Star(Cat(<<Plus(Ch(SEMI)), sgr_4bit(exclude_colors)>>)),
           Ch(LETTER_M) >>)

\* a pattern built with the extra colours whatever the flag says
get_color_pattern_always_extra(extra_colors, exclude_colors) ==
    Alt(<<sgr_re_4bit(exclude_colors), sgr_re_extra(exclude_colors)>>)

get_color_pattern(extra_colors, exclude_colors) ==
    IF extra_colors
    THEN Alt(<<sgr_re_4bit(exclude_colors), sgr_re_extra(exclude_colors)>>)
    ELSE sgr_re_4bit(exclude_colors)

\* re.match(pattern, string): the pattern anchored at the start of string
re_match(pattern, string) == Run(pattern, string, 1)

\* None when no way matches
IsMatch(m) == DOMAIN m.w # {}

\* sgr_match.end() of a way that ends at position q of string
MatchEnds(m) == {q - 1 : q \in DOMAIN m.w}

(* ------------------------------------------------------------------ *)
(* Inputs: texts and configurations                                    *)
(* ------------------------------------------------------------------ *)
MaxLen == 4
MaxParam == 120
MaxRun == 8

RECURSIVE Dec(_), Join(_), Repeat(_, _)

\* the decimal numeral of n
Dec(n) == IF n < 10 THEN <<Digit(n)>> ELSE Dec(n \div 10) \o <<Digit(n % 10)>>

\* parameters separated by semicolons
Join(ps) ==
    IF ps = <<>> THEN <<>>
    ELSE IF Len(ps) = 1 THEN ps[1]
    ELSE ps[1] \o <<SEMI>> \o Join(Tail(ps))

Repeat(t, k) == IF k = 0 THEN <<>> ELSE t \o Repeat(t, k - 1)

\* ESC [ parameters m
Sgr(ps) == <<ESC, LBRACKET>> \o Join(ps) \o <<LETTER_M>>

Strings(S, k) == UNION {[1..j -> S] : j \in 0..k}

\* every short text over the characters the scanner distinguishes
ScanAlphabet == {ESC, LBRACKET, SEMI, LETTER_M, Digit(1)}
GeneralTexts == Strings(ScanAlphabet, MaxLen)

\* one character of every class, in and out of an escape sequence
ClassChars == {0, 1, BEL, 8, TAB, LF, 11, 12, 13, 26, 28, 31, SPACE, 65, UNDERSCORE,
               TILDE, 127, 128, 155, 214, 246, 8364, 1114111}
Contexts == {<<>>, <<ESC>>, <<ESC, LBRACKET>>, <<ESC, LBRACKET, Digit(1)>>,
             <<LETTER_M>>, Sgr(<<Dec(1)>>)}
ClassTexts == {a \o <<c>> \o b : a \in Contexts, c \in ClassChars, b \in Contexts}

\* ESC [ N m
SingleTexts == {Sgr(<<Dec(n)>>) : n \in 0..MaxParam}

\* 4-bit parameters (empty, allowed, excluded in some configurations, and 26,
\* which is never allowed) around an extra-colour selector
Items == {<<>>, Dec(1), Dec(30)}
PreLists == {<<>>} \cup {<<x>> : x \in Items} \cup {<<x, y>> : x \in Items, y \in Items}
PostLists == {<<>>, <<<<>>>>, <<Dec(30)>>, <<Dec(26)>>, <<<<>>, Dec(1)>>, <<Dec(1), <<>>>>}
Components == {Dec(0), Dec(30)}
Selectors ==
    {<<>>, <<Dec(38), Dec(5)>>, <<Dec(48), Dec(2), Dec(0), Dec(0), Dec(256)>>}
    \cup {<<Dec(38), Dec(5), c>> : c \in Components \cup {Dec(255), Dec(256)}}
    \cup {<<Dec(48), Dec(5), c>> : c \in Components}
    \cup {<<Dec(38), Dec(2), Dec(0), g, b>> : g \in Components, b \in Components}
BodyTexts == {Sgr(a \o x \o b) : a \in PreLists, x \in Selectors, b \in PostLists}

\* texts of the tests and of the docstrings that the families above leave out
TestTexts ==
    { <<ESC, 93, Digit(8), SEMI, SEMI>>,
      <<97, ESC, 93, Digit(8), SEMI, SEMI, 98>>,
      <<97, ESC, 93, SPACE, Digit(8), SEMI, SEMI>>,
      <<97, ESC, SPACE, 93, Digit(8), SEMI, SEMI>>,
      <<ESC, LBRACKET, Digit(2), 75>>,
      <<ESC, LBRACKET, Digit(2), 74, 118, 8, 8, 70>>,
      Sgr(<<Dec(1), <<>>, Dec(31)>>),
      Sgr(<<Dec(1), Dec(30)>>),
      Sgr(<<Dec(1), Dec(31)>>),
      Sgr(<<Dec(31)>>),
      Sgr(<<Dec(37)>>),
      Sgr(<<Dec(38), Dec(5), Dec(30)>>),
      Sgr(<<Dec(0), Dec(48), Dec(5), Dec(1), Dec(1)>>),
      Sgr(<<<<>>, <<>>, <<>>, <<>>>>),
      Sgr(<<Dec(0), <<>>, <<>>, Dec(30), <<>>, <<>>, Dec(38), Dec(5), Dec(0)>>),
      Sgr(<<Dec(38), Dec(2), Dec(255), Dec(0), Dec(0), Dec(0)>>),
      Sgr(<<Dec(38), Dec(5), Dec(0)>>) \o Sgr(<<Dec(31)>>)
          \o Sgr(<<Dec(38), Dec(2), Dec(0), Dec(0), Dec(0)>>) }

\* ESC [ 1;1;...;1; x : a run of parameters that no pattern accepts
RunTexts == {<<ESC, LBRACKET>> \o Repeat(<<Digit(1), SEMI>>, k) \o <<120>> : k \in 1..MaxRun}

NoExclude == <<>>
TestExclude == <<Dec(30), Dec(37)>>
Excludes == {NoExclude, TestExclude, <<Dec(3)>>, <<Dec(1) \o <<SEMI>> \o Dec(30)>>}
BodyExcludes == {NoExclude, TestExclude}

Config(T, C, X, E) ==
    {[text |-> t, colors |-> c, extra_colors |-> x, exclude_colors |-> e] :
        t \in T, c \in C, x \in X, e \in E}

Inputs ==
    Config(GeneralTexts, {TRUE}, BOOLEAN, {NoExclude})
    \cup Config(GeneralTexts, {FALSE}, {TRUE}, {NoExclude})
    \cup Config(ClassTexts, BOOLEAN, BOOLEAN, {NoExclude})
    \cup Config(SingleTexts, BOOLEAN, BOOLEAN, {NoExclude, <<Dec(1)>>})
    \cup Config(BodyTexts, {TRUE}, BOOLEAN, BodyExcludes)
    \cup Config(TestTexts, BOOLEAN, BOOLEAN, Excludes)
    \cup Config(RunTexts, {TRUE}, BOOLEAN, {NoExclude})

(* ------------------------------------------------------------------ *)
(* safe_print                                                          *)
(* ------------------------------------------------------------------ *)
VARIABLES untrusted_text, colors, extra_colors, exclude_colors,
          output, i, pc, result, attempts,
          call,          \* 1 in safe_print(s, c), 2 in safe_print(safe_print(s, c), c)
          first_output   \* in call 2, the output list of call 1

vars == <<untrusted_text, colors, extra_colors, exclude_colors,
          output, i, pc, result, attempts, call, first_output>>

length == Len(untrusted_text)

\* untrusted_text[i], i counted from 0
char == untrusted_text[i + 1]

allowed_space == {LF, TAB}

\* a range test that reaches one code point too far and lets DEL through
AllowedThroughDel(hex_value) ==
    (SPACE <= hex_value /\ hex_value <= TILDE + 1) \/ hex_value \in allowed_space

\* 0x20 <= hex_value <= 0x7e or hex_value in allowed_space
Allowed(hex_value) ==
    (SPACE <= hex_value /\ hex_value <= TILDE) \/ hex_value \in allowed_space

\* a guard that forgets to look for "[" behind the escape
AtIntroducerAnyByte ==
    /\ colors
    /\ char = ESC
    /\ i + 1 < Len(untrusted_text)

\* colors and hex_value == 0x1b and i + 1 < len(untrusted_text) and
\* untrusted_text[i + 1] == "["
AtIntroducer ==
    /\ colors
    /\ char = ESC
    /\ i + 1 < Len(untrusted_text)
    /\ untrusted_text[i + 2] = LBRACKET

\* re.match(sgr_pattern, untrusted_text[i + 2:])
sgr_match ==
    re_match(get_color_pattern(extra_colors, exclude_colors),
             SubSeq(untrusted_text, i + 3, Len(untrusted_text)))

\* a slice that stops one character early
SliceShort(a, lo, hi) == SubSeq(a, lo + 1, IF hi - 1 < Len(a) THEN hi - 1 ELSE Len(a))

\* a slice that takes one character too many
SliceLong(a, lo, hi) == SubSeq(a, lo + 1, IF hi + 1 < Len(a) THEN hi + 1 ELSE Len(a))

\* a[lo:hi]
Slice(a, lo, hi) == SubSeq(a, lo + 1, IF hi < Len(a) THEN hi ELSE Len(a))

RECURSIVE JoinAll(_)
\* "".join(output)
JoinAll(parts) == IF parts = <<>> THEN <<>> ELSE Head(parts) \o JoinAll(Tail(parts))

Init ==
    /\ \E inp \in Inputs :
        /\ untrusted_text = inp.text
        /\ colors = inp.colors
        /\ extra_colors = inp.extra_colors
        /\ exclude_colors = inp.exclude_colors
    /\ output = <<>>
    /\ i = 0
    /\ pc = "loop"
    /\ result = <<>>
    /\ attempts = 0
    /\ call = 1
    /\ first_output = <<>>

PassThrough ==
    /\ pc = "loop"
    /\ i < length
    /\ Allowed(char)
    /\ output' = Append(output, <<char>>)
    /\ i' = i + 1
    /\ attempts' = 0
    /\ UNCHANGED <<untrusted_text, colors, extra_colors, exclude_colors, pc, result,
                   call, first_output>>

CopySequence ==
    /\ pc = "loop"
    /\ i < length
    /\ ~Allowed(char)
    /\ AtIntroducer
    /\ LET m == sgr_match
       IN  /\ IsMatch(m)
           /\ \E sgr_match_length \in MatchEnds(m) :
                /\ output' = Append(output,
                                    Slice(untrusted_text, i, i + 2 + sgr_match_length))
                /\ i' = i + sgr_match_length + 1 + 1
    /\ attempts' = 0
    /\ UNCHANGED <<untrusted_text, colors, extra_colors, exclude_colors, pc, result,
                   call, first_output>>

Redact ==
    /\ pc = "loop"
    /\ i < length
    /\ ~Allowed(char)
    /\ IF AtIntroducer
       THEN LET m == sgr_match
            IN  ~IsMatch(m) /\ attempts' = m.n
       ELSE attempts' = 0
    /\ output' = Append(output, <<UNDERSCORE>>)
    /\ i' = i + 1
    /\ UNCHANGED <<untrusted_text, colors, extra_colors, exclude_colors, pc, result,
                   call, first_output>>

Return ==
    /\ pc = "loop"
    /\ ~(i < length)
    /\ result' = JoinAll(output)
    /\ pc' = "done"
    /\ UNCHANGED <<untrusted_text, colors, extra_colors, exclude_colors,
                   output, i, attempts, call, first_output>>

Next == PassThrough \/ CopySequence \/ Redact \/ Return

Spec == Init /\ [][Next]_vars

(* ------------------------------------------------------------------ *)
(* safe_print(safe_print(s, c), c): the scanner called on its result   *)
(* ------------------------------------------------------------------ *)
\* an excluded token that reaches behind the "m" of ESC [ 1 m
TokenPastEnd == <<Digit(1), LETTER_M, UNDERSCORE>>

\* ESC [ 1 m and a character that is redacted, or one that is not, behind it
PastEndTexts == {Sgr(<<Dec(1)>>) \o <<c>> : c \in {BEL, UNDERSCORE, LETTER_M}}

TwiceInputs ==
    Config(GeneralTexts, {TRUE}, {TRUE}, {NoExclude})
    \cup Config(ClassTexts, {TRUE}, {TRUE}, {NoExclude})
    \cup Config(BodyTexts, {TRUE}, {TRUE}, {TestExclude})
    \cup Config(TestTexts, BOOLEAN, BOOLEAN, Excludes)
    \cup Config(PastEndTexts, {TRUE}, BOOLEAN, {NoExclude, <<TokenPastEnd>>})

TwiceInit ==
    /\ \E inp \in TwiceInputs :
        /\ untrusted_text = inp.text
        /\ colors = inp.colors
        /\ extra_colors = inp.extra_colors
        /\ exclude_colors = inp.exclude_colors
    /\ output = <<>>
    /\ i = 0
    /\ pc = "loop"
    /\ result = <<>>
    /\ attempts = 0
    /\ call = 1
    /\ first_output = <<>>

\* the second call: the returned string is the untrusted_text, the
\* configuration is the same, the locals start afresh
CallAgain ==
    /\ pc = "done"
    /\ call = 1
    /\ untrusted_text' = result
    /\ output' = <<>>
    /\ i' = 0
    /\ pc' = "loop"
    /\ result' = <<>>
    /\ attempts' = 0
    /\ call' = 2
    /\ first_output' = output
    /\ UNCHANGED <<colors, extra_colors, exclude_colors>>

TwiceNext == PassThrough \/ CopySequence \/ Redact \/ Return \/ CallAgain

TwiceSpec == TwiceInit /\ [][TwiceNext]_vars

(* ------------------------------------------------------------------ *)
(* What the claims speak of: the text read as control sequences        *)
(* ------------------------------------------------------------------ *)
\* printable ASCII, tab and line feed
PassesThrough(c) == c \in 32..126 \cup {9, 10}

\* what a character other than ESC becomes
Classified(c) == IF PassesThrough(c) THEN c ELSE UNDERSCORE

BodyChars == DigitRange(0, 9) \cup {SEMI}

\* ESC [ at position p of t
IsCsiAt(t, p) == p + 1 <= Len(t) /\ t[p] = ESC /\ t[p + 1] = LBRACKET

\* the position behind the digits and semicolons that follow ESC [ at p
BodyStop(t, p) ==
    CHOOSE e \in (p + 2)..(Len(t) + 1) :
        /\ \A k \in (p + 2)..(e - 1) : t[k] \in BodyChars
        /\ e = Len(t) + 1 \/ t[e] \notin BodyChars

\* ESC [ digits and semicolons m: a candidate SGR sequence at p
IsCandidateAt(t, p) ==
    /\ IsCsiAt(t, p)
    /\ BodyStop(t, p) <= Len(t)
    /\ t[BodyStop(t, p)] = LETTER_M

SemisAt(t, p) == {q \in (p + 2)..(BodyStop(t, p) - 1) : t[q] = SEMI}

\* the parameters of the candidate at p: where each starts and its digits
ParamsAt(t, p) ==
    LET semis == SemisAt(t, p)
        count == Cardinality(semis) + 1
        Semi(k) == CHOOSE q \in semis : Cardinality({r \in semis : r <= q}) = k
        From(k) == IF k = 1 THEN p + 2 ELSE Semi(k - 1) + 1
        To(k) == IF k = count THEN BodyStop(t, p) - 1 ELSE Semi(k) - 1
    IN  [k \in 1..count |-> [at |-> From(k), str |-> SubSeq(t, From(k), To(k))]]

RECURSIVE Value(_)
\* the number a string of digits denotes
Value(str) ==
    IF str = <<>> THEN 0
    ELSE 10 * Value(SubSeq(str, 1, Len(str) - 1)) + (str[Len(str)] - ZERO)

\* the enumerated 4-bit codes
FourBitCodes ==
    (0..9) \cup (21..25) \cup (27..29) \cup (30..37) \cup {39} \cup (40..47) \cup {49}
    \cup (90..97) \cup (100..107)

NoLeadingZero(str) == Len(str) = 1 \/ str[1] # Digit(0)

IsFourBit(str) ==
    str # <<>> /\ Len(str) <= 3 /\ NoLeadingZero(str) /\ Value(str) \in FourBitCodes

\* an 8-bit index or a 24-bit component: one to three digits, 0..255
IsColourValue(str) == Len(str) \in 1..3 /\ Value(str) <= 255

\* the text at position at begins with the token
BeginsWith(t, at, tok) ==
    /\ at + Len(tok) - 1 <= Len(t)
    /\ \A k \in 1..Len(tok) : t[at + k - 1] = tok[k]

\* the text at position at begins with a token of excl
ExcludedAt(t, at, excl) == \E k \in 1..Len(excl) : BeginsWith(t, at, excl[k])

\* the first parameter that opens an extra-colour selector, 0 when there is none
SelectorAt(ps) ==
    IF \E a \in 1..Len(ps) : ps[a].str \in {Dec(38), Dec(48)}
    THEN CHOOSE a \in 1..Len(ps) :
            /\ ps[a].str \in {Dec(38), Dec(48)}
            /\ \A b \in 1..(a - 1) : ps[b].str \notin {Dec(38), Dec(48)}
    ELSE 0

\* the number of parameters the selector opened at a takes: 38;5;N or 38;2;R;G;B
SelectorLen(ps, a) ==
    IF a + 1 <= Len(ps) /\ ps[a + 1].str = Dec(2) THEN 5 ELSE 3

\* the parameters outside the selector
FourBitPositions(ps) ==
    LET a == SelectorAt(ps)
    IN  IF a = 0 THEN 1..Len(ps)
        ELSE {k \in 1..Len(ps) : k < a \/ k >= a + SelectorLen(ps, a)}

\* a parameter of the 4-bit level: empty, or an enumerated code that no
\* excluded token begins at
FourBitOk(t, ps, k, excl) ==
    \/ ps[k].str = <<>>
    \/ IsFourBit(ps[k].str) /\ ~ExcludedAt(t, ps[k].at, excl)

\* the 4-bit level: only empty parameters, or empty ones and then codes
PlainSgr(t, ps, excl) ==
    \/ \A k \in 1..Len(ps) : ps[k].str = <<>>
    \/ \E f \in 1..Len(ps) :
          /\ \A k \in 1..(f - 1) : ps[k].str = <<>>
          /\ \A k \in f..Len(ps) : ps[k].str # <<>> /\ FourBitOk(t, ps, k, excl)

\* a well-formed selector at a: 38 or 48, then 5;N or 2;R;G;B
WellFormedSelector(ps, a) ==
    /\ a > 0
    /\ a + SelectorLen(ps, a) - 1 <= Len(ps)
    /\ ps[a + 1].str = (IF SelectorLen(ps, a) = 5 THEN Dec(2) ELSE Dec(5))
    /\ \A k \in (a + 2)..(a + SelectorLen(ps, a) - 1) : IsColourValue(ps[k].str)

\* the extra-colour levels: 4-bit parameters, one selector, 4-bit parameters
\* that do not end in an empty one
ExtraSgr(t, ps, excl) ==
    LET a == SelectorAt(ps)
        after == {k \in 1..Len(ps) : k >= a + SelectorLen(ps, a)}
    IN  /\ WellFormedSelector(ps, a)
        /\ ~ExcludedAt(t, ps[a].at, excl)
        /\ \A k \in FourBitPositions(ps) : FourBitOk(t, ps, k, excl)
        /\ \/ \A k \in after : ps[k].str = <<>>
           \/ ps[Len(ps)].str # <<>>

\* the candidate at p is in the grammar of the configuration
ValidSgrAt(t, p, extra, excl) ==
    /\ IsCandidateAt(t, p)
    /\ \/ PlainSgr(t, ParamsAt(t, p), excl)
       \/ extra /\ ExtraSgr(t, ParamsAt(t, p), excl)

\* the characters of t from p to q are those of r
SameSpan(t, r, p, q) == q <= Len(r) /\ \A k \in p..q : r[k] = t[k]

Done == pc = "done"

(* ------------------------------------------------------------------ *)
(* Sanity of the reading above: at every ESC the scanner copies a      *)
(* sequence exactly when the configuration's grammar holds there       *)
(* ------------------------------------------------------------------ *)
GrammarAgrees ==
    Done =>
        /\ Len(result) = Len(untrusted_text)
        /\ \A p \in 1..Len(untrusted_text) :
              untrusted_text[p] = ESC =>
                  (result[p] = ESC
                     <=> colors /\ ValidSgrAt(untrusted_text, p, extra_colors, exclude_colors))

\* the result with the ESC at position 1 redacted and the rest as it was
Redacted(t) == <<UNDERSCORE>> \o Tail(t)

NoSgrAtCursor ==
    /\ pc = "loop"
    /\ i < length
    /\ char = ESC
    /\ ~(colors /\ ValidSgrAt(untrusted_text, i + 1, extra_colors, exclude_colors))

C3_LoneEscRedacted ==
    /\ [][NoSgrAtCursor =>
            /\ output' = Append(output, <<UNDERSCORE>>)
            /\ i' = i + 1
            /\ pc' = "loop"]_vars
    /\ [](Done =>
            \A p \in 1..Len(untrusted_text) :
                (/\ untrusted_text[p] = ESC
                 /\ ~(colors /\ ValidSgrAt(untrusted_text, p, extra_colors, exclude_colors)))
                => /\ result[p] = UNDERSCORE
                   /\ \A q \in (p + 1)..Len(untrusted_text) :
                         (\A r \in (p + 1)..q : untrusted_text[r] # ESC)
                         => result[q] = Classified(untrusted_text[q]))

\* ESC [ 2 K with colours on: the ESC redacted, "[2K" passed through
C3_Witness ==
    /\ Done
    /\ colors
    /\ untrusted_text = <<ESC, LBRACKET, Digit(2), 75>>
    /\ result = <<UNDERSCORE, LBRACKET, Digit(2), 75>>

(* ------------------------------------------------------------------ *)
(* C4: with colours on and nothing excluded, ESC [ N m with N written  *)
(* without leading zeros is returned unchanged exactly when N is one   *)
(* of the enumerated 4-bit codes; for every other N the ESC comes out  *)
(* as '_'.                                                             *)
(* ------------------------------------------------------------------ *)
C4_SingleParameter ==
    (Done /\ colors /\ exclude_colors = NoExclude) =>
        \A n \in 0..MaxParam :
            untrusted_text = Sgr(<<Dec(n)>>) =>
                IF n \in FourBitCodes
                THEN result = untrusted_text
                ELSE result = Redacted(untrusted_text)

\* ESC [ 26 m, between the accepted 25 and 27, comes out redacted
C4_Witness ==
    /\ Done
    /\ colors
    /\ exclude_colors = NoExclude
    /\ untrusted_text = Sgr(<<Dec(26)>>)
    /\ result = Redacted(untrusted_text)

\* the candidate at p comes out as it went in
CopiedAt(p) == SameSpan(untrusted_text, result, p, BodyStop(untrusted_text, p))

\* the candidate at p comes out with '_' for its ESC and the rest as text
RedactedAt(p) ==
    /\ result[p] = UNDERSCORE
    /\ SameSpan(untrusted_text, result, p + 1, BodyStop(untrusted_text, p))

\* the candidates of the input
Candidates == {p \in 1..Len(untrusted_text) : IsCandidateAt(untrusted_text, p)}

(* ------------------------------------------------------------------ *)
(* C5: with colours on, under either setting of extra_colors, a        *)
(* sequence of 4-bit parameters is returned unchanged whatever empty   *)
(* parameters stand in front of or between them: ESC [ m, ESC [ ;;; m, *)
(* ESC [ ;;1 m and ESC [ 1;;31 m alike.                                *)
(* ------------------------------------------------------------------ *)
\* enumerated codes and empty parameters, the last one not empty unless all are
FourBitWithEmpties(ps) ==
    /\ \A k \in 1..Len(ps) : ps[k].str = <<>> \/ IsFourBit(ps[k].str)
    /\ \/ \A k \in 1..Len(ps) : ps[k].str = <<>>
       \/ ps[Len(ps)].str # <<>>

C5_EmptyParametersAccepted ==
    (Done /\ colors /\ exclude_colors = NoExclude) =>
        \A p \in Candidates :
            FourBitWithEmpties(ParamsAt(untrusted_text, p)) => CopiedAt(p)

(* ------------------------------------------------------------------ *)
(* C6: with colors false every ESC comes out as '_' and the output     *)
(* holds no ESC; with colors true and extra_colors false a sequence of *)
(* 4-bit codes is returned unchanged and every sequence that contains  *)
(* an 8-bit or 24-bit selector is redacted; with both true a selector  *)
(* with 4-bit codes in front of and behind it is returned unchanged.   *)
(* ------------------------------------------------------------------ *)
\* 38;5;N, 48;5;N, 38;2;R;G;B or 48;2;R;G;B somewhere among the parameters
ContainsSelector(ps) ==
    \E a \in 1..Len(ps) :
        ps[a].str \in {Dec(38), Dec(48)} /\ WellFormedSelector(ps, a)

\* 4-bit codes only, at least one
FourBitOnly(ps) == \A k \in 1..Len(ps) : IsFourBit(ps[k].str)

\* one selector, 4-bit codes in front of it and behind it
SelectorAmongFourBit(ps) ==
    /\ SelectorAt(ps) # 0
    /\ WellFormedSelector(ps, SelectorAt(ps))
    /\ \A k \in FourBitPositions(ps) : IsFourBit(ps[k].str)

C6_FlagsGateLevels ==
    Done =>
        /\ ~colors =>
              \A p \in 1..Len(result) :
                  /\ result[p] # ESC
                  /\ untrusted_text[p] = ESC => result[p] = UNDERSCORE
        /\ (colors /\ ~extra_colors) =>
              \A p \in Candidates :
                  LET ps == ParamsAt(untrusted_text, p)
                  IN  /\ (FourBitOnly(ps) /\ exclude_colors = NoExclude) => CopiedAt(p)
                      /\ ContainsSelector(ps) => RedactedAt(p)
        /\ (colors /\ extra_colors /\ exclude_colors = NoExclude) =>
              \A p \in Candidates :
                  LET ps == ParamsAt(untrusted_text, p)
                  IN  (FourBitOnly(ps) \/ SelectorAmongFourBit(ps)) => CopiedAt(p)

\* ESC [ 1;38;5;0;30 m is redacted when extra_colors is off
C6_Witness ==
    /\ Done
    /\ colors
    /\ ~extra_colors
    /\ untrusted_text = Sgr(<<Dec(1), Dec(38), Dec(5), Dec(0), Dec(30)>>)
    /\ result = Redacted(untrusted_text)

(* ------------------------------------------------------------------ *)
(* C7: with colours excluded, a candidate in which an excluded token   *)
(* begins at some 4-bit parameter (first, interior, last, in front of  *)
(* or behind a selector) is rejected as a whole: '_' for its ESC, the  *)
(* rest as text, nothing stripped; a sequence of the grammar in which  *)
(* no token begins at any parameter is returned unchanged.             *)
(* ------------------------------------------------------------------ *)
\* the 4-bit parameters: all of them, or those around a well-formed selector
FourBitParameters(ps) ==
    IF SelectorAt(ps) # 0 /\ WellFormedSelector(ps, SelectorAt(ps))
    THEN {k \in FourBitPositions(ps) : ps[k].str # <<>>}
    ELSE {k \in 1..Len(ps) : ps[k].str # <<>>}

C7_ExclusionRejectsWhole ==
    (Done /\ colors /\ exclude_colors # NoExclude) =>
        \A p \in Candidates :
            LET ps == ParamsAt(untrusted_text, p)
            IN  /\ (\E k \in FourBitParameters(ps) :
                        ExcludedAt(untrusted_text, ps[k].at, exclude_colors))
                    => RedactedAt(p)
                /\ (/\ ValidSgrAt(untrusted_text, p, extra_colors, NoExclude)
                    /\ \A k \in 1..Len(ps) :
                          ~ExcludedAt(untrusted_text, ps[k].at, exclude_colors))
                    => CopiedAt(p)

\* 30 excluded: ESC [ 1;38;5;0;30 m is rejected as a whole for the 30 at its end
C7_Witness ==
    /\ Done
    /\ colors
    /\ extra_colors
    /\ exclude_colors = TestExclude
    /\ untrusted_text = Sgr(<<Dec(1), Dec(38), Dec(5), Dec(0), Dec(30)>>)
    /\ result = Redacted(untrusted_text)

(* ------------------------------------------------------------------ *)
(* C8: with colours and extra colours on and 30 and 37 excluded,       *)
(* ESC [ 38;5;30 m and ESC [ 38;2;0;30;0 m are returned unchanged and  *)
(* ESC [ 38;2;0;30;30 m is returned with '_' for its ESC.              *)
(* ------------------------------------------------------------------ *)
C8_ExcludedColourValue ==
    (Done /\ colors /\ extra_colors /\ exclude_colors = TestExclude) =>
        /\ untrusted_text = Sgr(<<Dec(38), Dec(5), Dec(30)>>)
              => result = untrusted_text
        /\ untrusted_text = Sgr(<<Dec(38), Dec(2), Dec(0), Dec(30), Dec(0)>>)
              => result = untrusted_text
        /\ untrusted_text = Sgr(<<Dec(38), Dec(2), Dec(0), Dec(30), Dec(30)>>)
              => result = Redacted(untrusted_text)

(* ------------------------------------------------------------------ *)
(* C9: a candidate that fails is rejected after a number of character  *)
(* tests linear in its length: without repeated backtracking no        *)
(* character test of the pattern is made twice at one position of the  *)
(* text, so the tests of one match are at most the character tests of  *)
(* the pattern times the positions of the text behind ESC [.           *)
(* ------------------------------------------------------------------ *)
RECURSIVE Leaves(_), LeavesOf(_, _)
\* the character tests and lookaheads a pattern is made of
Leaves(re) ==
    CASE re.t \in {"cls", "nla"} -> 1
      [] re.t \in {"cat", "alt"} -> LeavesOf(re.rs, Len(re.rs))
      [] re.t \in {"opt", "star"} -> Leaves(re.r)

LeavesOf(rs, k) == IF k = 0 THEN 0 ELSE LeavesOf(rs, k - 1) + Leaves(rs[k])

C9_LinearRejection ==
    (pc = "loop" /\ i > 0) =>
        attempts <= Leaves(get_color_pattern(extra_colors, exclude_colors))
                        * (length - i)

(* ------------------------------------------------------------------ *)
(* C10: the output holds only printable ASCII, tab, line feed and ESC, *)
(* and every ESC of the output opens ESC [ body m with a body of       *)
(* digits and semicolons that the configured grammar accepts.  As      *)
(* claimed, no parameter of such a body begins with an excluded token. *)
(* ------------------------------------------------------------------ *)
OnlySafeCharacters ==
    \A p \in 1..Len(result) : PassesThrough(result[p]) \/ result[p] = ESC

PlainTokens(excl) ==
    \A k \in 1..Len(excl) : \A j \in 1..Len(excl[k]) : excl[k][j] \in BodyChars

C11_Idempotent ==
    (Done /\ call = 2 /\ PlainTokens(exclude_colors)) =>
        /\ result = untrusted_text
        /\ output = first_output

\* a second call over a copied sequence, the '_' of a rejected ESC [ and the
\* '_' of another redacted character, with colours excluded
C11_Witness ==
    /\ Done
    /\ call = 2
    /\ exclude_colors # NoExclude
    /\ PlainTokens(exclude_colors)
    /\ result = untrusted_text
    /\ \E k \in 1..Len(first_output) : Len(first_output[k]) > 2
    /\ \E k \in 1..(Len(first_output) - 1) :
          first_output[k] = <<UNDERSCORE>> /\ first_output[k + 1] = <<LBRACKET>>

\* what the condition on the tokens is for: with the token "1m_" excluded,
\* ESC [ 1 m BEL is copied by the first call and rejected by the second
C11_TokenPastEndBreaks ==
    /\ Done
    /\ call = 2
    /\ exclude_colors = <<TokenPastEnd>>
    /\ untrusted_text = Sgr(<<Dec(1)>>) \o <<UNDERSCORE>>
    /\ result = Redacted(untrusted_text)
    /\ first_output = <<Sgr(<<Dec(1)>>), <<UNDERSCORE>>>>

====
